---- MODULE Spec2Model ----
(***************************************************************************)
(* Model of the trace analysis scripts of agent-instability-notes:         *)
(*   scripts/compute_metrics_from_jsonl.py  (loader, grouper, metrics)     *)
(*   scripts/trace_tree_sanity_checks.py    (structural checks)            *)
(*                                                                         *)
(* A decoded JSON value is a tagged tuple; a JSON object (Python dict) is  *)
(* a TLA+ function whose DOMAIN is the set of keys that are present.       *)
(***************************************************************************)
EXTENDS Integers, Sequences, FiniteSets, TLC

VARIABLES
  pc,              \* position of the running function
  lines,           \* load_events: the lines of the file
  max_sessions,    \* load_events: the cap (None or a number)
  li,              \* load_events: index of the line the loop is at
  events,          \* the list of Event objects (loader output / grouper input)
  seen_traces,     \* load_events: set of trace_ids seen
  traces,          \* the grouped sessions (ordered dict trace_id -> list)
  si,              \* metrics: index of the session the outer loop is at
  ei,              \* metrics: index of the record the inner loop is at
  prev,            \* latency gaps / monotonicity: previous value or None
  gaps,            \* compute_relative_latency_gaps: output list
  onset_turn,      \* compute_recovery_turn_distances: pending onset or None
  distances,       \* compute_recovery_turn_distances: output list
  had_correction,  \* compute_post_correction_relapse_rate: per-session flag
  relapsed,        \* compute_post_correction_relapse_rate: per-session flag
  with_correction, \* compute_post_correction_relapse_rate: counter
  with_relapse,    \* compute_post_correction_relapse_rate: counter
  violations,      \* check_timestamp_monotonicity: counter
  label,           \* compute_session_closure_profile: label of the session
  counts,          \* compute_session_closure_profile: Counter of labels
  stdout,          \* the lines written to standard output
  children,        \* compute_span_fanout: child count per parent id
  fanouts,         \* sanity main: Counter of child counts
  gen,             \* generator: arguments and values drawn once per session
  gen_ts,          \* generator: ts, the timestamp of the last event emitted
  span_counter,    \* generator: number of events emitted
  result           \* value returned by the function that ran

vars == <<pc, lines, max_sessions, li, events, seen_traces, traces, si, ei,
          prev, gaps, onset_turn, distances, had_correction, relapsed,
          with_correction, with_relapse, violations, label, counts, stdout,
          children, fanouts, gen, gen_ts, span_counter, result>>

-----------------------------------------------------------------------------
(* Bounds of the model *)

MaxLines == 4
MaxCap == 2
MaxEvents == 4

-----------------------------------------------------------------------------
(* Decoded JSON values and Python's None *)

None == <<"null">>
JInt(n) == <<"int", n>>
JStr(s) == <<"str", s>>
JDict(d) == <<"dict", d>>

IsInt(v) == v[1] = "int"
IsStr(v) == v[1] = "str"
IsDict(v) == v[1] = "dict"

EmptyDict == [k \in {} |-> None]

\* Counter()
EmptyCounter == [k \in {} |-> 0]

\* dict.get(key, default)
DictGet(d, key, default) == IF key \in DOMAIN d THEN d[key] ELSE default

\* str(value) for the values the model draws
PyStr(v) ==
  CASE IsStr(v) -> v[2]
    [] IsInt(v) -> ToString(v[2])
    [] v = None -> "None"
    [] OTHER -> "{...}"

\* truth value of a Python object, as used by `or`
Truthy(v) ==
  CASE v = None -> FALSE
    [] IsInt(v) -> v[2] # 0
    [] IsStr(v) -> v[2] # ""
    [] IsDict(v) -> DOMAIN v[2] # {}
    [] OTHER -> TRUE

\* decimal strings int() and float() accept, among the strings the model draws
NumericStrings == [s \in {"0", "1", "2", "3"} |->
                     CASE s = "0" -> 0 [] s = "1" -> 1 [] s = "2" -> 2 [] OTHER -> 3]

\* int(val) / float(val) with the except clause: None on TypeError, ValueError
Coerce(val) ==
  CASE val = None -> None
    [] IsInt(val) -> val
    [] IsStr(val) -> IF val[2] \in DOMAIN NumericStrings
                       THEN JInt(NumericStrings[val[2]]) ELSE None
    [] OTHER -> None

-----------------------------------------------------------------------------
(* Event accessors (compute_metrics_from_jsonl.py) *)

trace_id(raw) == PyStr(DictGet(raw, "trace_id", JStr("")))
event_type(raw) == PyStr(DictGet(raw, "event_type", JStr("")))
component(raw) == PyStr(DictGet(raw, "component", JStr("")))

payload(raw) ==
  LET obj == DictGet(raw, "payload", None)
  IN IF IsDict(obj) THEN obj[2] ELSE EmptyDict

latency_ms(raw) == Coerce(DictGet(payload(raw), "latency_ms", None))

\* only the top-level field is read
turn_toplevel(raw) == Coerce(DictGet(raw, "turn", None))

turn(raw) ==
  LET p == DictGet(payload(raw), "turn", None)
      val == IF Truthy(p) THEN p ELSE DictGet(raw, "turn", None)
  IN Coerce(val)

\* the fallback reads payload.phase when payload is a mapping
phase_payload(raw) ==
  LET top == DictGet(raw, "phase", None)
  IN IF top = None /\ IsDict(DictGet(raw, "payload", None))
       THEN DictGet(DictGet(raw, "payload", None)[2], "phase", None)
       ELSE top

phase(raw) ==
  LET top == DictGet(raw, "phase", None)
  IN IF top = None /\ IsDict(DictGet(raw, "pld", None))
       THEN DictGet(DictGet(raw, "pld", None)[2], "phase", None)
       ELSE top

-----------------------------------------------------------------------------
(* Values of the variables a function does not use *)

LoadIdle == /\ lines = <<>> /\ max_sessions = None /\ li = 0
            /\ seen_traces = {}
MetricIdle == /\ si = 0 /\ ei = 0 /\ prev = None /\ gaps = <<>>
              /\ onset_turn = None /\ distances = <<>>
              /\ had_correction = FALSE /\ relapsed = FALSE
              /\ with_correction = 0 /\ with_relapse = 0
              /\ violations = 0 /\ label = None /\ counts = EmptyCounter
\* no generator ran
NoGen == [variant |-> "none"]
ExtraIdle == /\ stdout = <<>> /\ children = EmptyDict /\ fanouts = EmptyCounter
             /\ gen = NoGen /\ gen_ts = 0 /\ span_counter = 0
NoTraces == [keys |-> <<>>, vals |-> [k \in {} |-> <<>>]]

loadVars == <<lines, max_sessions, li, seen_traces>>
metricVars == <<si, ei, prev, gaps, onset_turn, distances, had_correction,
                relapsed, with_correction, with_relapse, violations, label, counts>>
extraVars == <<stdout, children, fanouts, gen, gen_ts, span_counter>>

\* all sequences over S of length at most n
SeqsUpTo(S, n) == UNION {[1..k -> S] : k \in 0..n}

-----------------------------------------------------------------------------
(* load_events (compute_metrics_from_jsonl.py) *)

BlankLine == <<"blank">>
MalformedLine == <<"malformed">>
ObjLine(raw) == <<"obj", raw>>

LoadTraceIds == {JStr("a"), JStr("b"), JStr("c"), JStr(""), None}
LoadRaws == {[trace_id |-> t] : t \in LoadTraceIds} \cup {EmptyDict}
LoadLines == {BlankLine, MalformedLine} \cup {ObjLine(r) : r \in LoadRaws}
Caps == {None} \cup {JInt(n) : n \in 0..MaxCap}

InitLoad ==
  /\ pc = "load"
  /\ lines \in SeqsUpTo(LoadLines, MaxLines)
  /\ max_sessions \in Caps
  /\ li = 1
  /\ events = <<>>
  /\ seen_traces = {}
  /\ traces = NoTraces
  /\ MetricIdle
  /\ ExtraIdle
  /\ result = None

\* the line is empty after strip(), or json.loads raises JSONDecodeError
LoadSkip ==
  /\ pc = "load" /\ li <= Len(lines)
  /\ lines[li] \in {BlankLine, MalformedLine}
  /\ li' = li + 1
  /\ UNCHANGED <<pc, lines, max_sessions, events, seen_traces, traces,
                 metricVars, result, extraVars>>

\* line 116 left out: the trace_id is never recorded
SeenAfter_forgets(seen, tid) == seen

\* seen_traces after line 116
SeenAfter(seen, tid) == IF tid # "" THEN seen \cup {tid} ELSE seen

\* the condition of line 117, evaluated when trace_id is non-empty
CapExceeded(seen, cap) == cap # None /\ Cardinality(seen) > cap[2]

\* the record is appended first and the loop stops after it
LoadBreak_appends ==
  /\ pc = "load" /\ li <= Len(lines)
  /\ lines[li][1] = "obj"
  /\ LET ev == lines[li][2]
         tid == trace_id(ev)
     IN /\ tid # ""
        /\ max_sessions # None
        /\ Cardinality(seen_traces \cup {tid}) > max_sessions[2]
        /\ seen_traces' = seen_traces \cup {tid}
        /\ events' = Append(events, ev)
        /\ result' = Append(events, ev)
  /\ pc' = "load_done"
  /\ UNCHANGED <<lines, max_sessions, li, traces, metricVars, extraVars>>

\* the break of line 118: the record is not appended
LoadBreak ==
  /\ pc = "load" /\ li <= Len(lines)
  /\ lines[li][1] = "obj"
  /\ LET ev == lines[li][2]
         tid == trace_id(ev)
     IN /\ tid # ""
        /\ CapExceeded(SeenAfter(seen_traces, tid), max_sessions)
        /\ seen_traces' = SeenAfter(seen_traces, tid)
  /\ pc' = "load_done"
  /\ result' = events
  /\ UNCHANGED <<lines, max_sessions, li, events, traces, metricVars, extraVars>>

\* line 119: the record is appended
LoadAppend ==
  /\ pc = "load" /\ li <= Len(lines)
  /\ lines[li][1] = "obj"
  /\ LET ev == lines[li][2]
         tid == trace_id(ev)
     IN /\ ~(tid # "" /\ CapExceeded(SeenAfter(seen_traces, tid), max_sessions))
        /\ seen_traces' = SeenAfter(seen_traces, tid)
        /\ events' = Append(events, ev)
  /\ li' = li + 1
  /\ UNCHANGED <<pc, lines, max_sessions, traces, metricVars, result, extraVars>>

\* end of file: return events
LoadReturn ==
  /\ pc = "load" /\ li > Len(lines)
  /\ pc' = "load_done"
  /\ result' = events
  /\ UNCHANGED <<lines, max_sessions, li, events, seen_traces, traces,
                 metricVars, extraVars>>

NextLoad == LoadSkip \/ LoadBreak \/ LoadAppend \/ LoadReturn

SpecLoad == InitLoad /\ [][NextLoad]_vars

\* the distinct non-empty trace_ids carried by a list of records
SessionIds(evs) == {trace_id(evs[k]) : k \in 1..Len(evs)} \ {""}

\* the records parsed from the lines before line k, in file order
IsObjLine(l) == l[1] = "obj"
ParsedBefore(k) ==
  LET objs == SelectSeq(SubSeq(lines, 1, k - 1), IsObjLine)
  IN [n \in 1..Len(objs) |-> objs[n][2]]

\* the loop was left by the break: li still points at the record that tripped
StoppedByCap == pc = "load_done" /\ li <= Len(lines)

\* every line is a record with a non-empty trace_id and two ids occur
TwoInterleaved ==
  /\ \A k \in 1..Len(lines) : IsObjLine(lines[k]) /\ trace_id(lines[k][2]) # ""
  /\ Cardinality({trace_id(lines[k][2]) : k \in 1..Len(lines)}) = 2

\* C1: with a cap N the records collected (and returned) carry at most N
\* distinct non-empty trace_ids; with N = 1 and a file whose lines belong to
\* two distinct trace_ids the returned records are of exactly one trace_id.
C1_CapBoundsSessions ==
  /\ max_sessions # None =>
       /\ Cardinality(SessionIds(events)) <= max_sessions[2]
       /\ pc = "load_done" => Cardinality(SessionIds(result)) <= max_sessions[2]
  /\ (pc = "load_done" /\ max_sessions = JInt(1) /\ TwoInterleaved) =>
       Cardinality({trace_id(result[k]) : k \in 1..Len(result)}) = 1

C1_Witness ==
  /\ StoppedByCap /\ max_sessions = JInt(1) /\ TwoInterleaved
  /\ Len(lines) >= 3 /\ li = 2
  /\ trace_id(lines[3][2]) = trace_id(lines[1][2])
  /\ Len(result) = 1

\* C2 as stated: the record that makes the distinct trace_ids reach N+1 is
\* the last record of the returned list.
C2_TrippingRecordAppended ==
  StoppedByCap =>
    /\ result # <<>>
    /\ result[Len(result)] = lines[li][2]

\* C2 amended: the record that makes the distinct trace_ids reach N+1 is not
\* appended; reading stops at it, the returned list is exactly the records
\* parsed before it and holds no record of its session.
C2_TrippingRecordDropped ==
  StoppedByCap =>
    /\ IsObjLine(lines[li])
    /\ Cardinality(seen_traces) = max_sessions[2] + 1
    /\ trace_id(lines[li][2]) \notin SessionIds(result)
    /\ Cardinality(SessionIds(result)) = max_sessions[2]
    /\ result = ParsedBefore(li)

C2_Witness ==
  /\ StoppedByCap /\ li < Len(lines) /\ result # <<>>
  /\ max_sessions = JInt(2)

-----------------------------------------------------------------------------
(* group_by_trace (both scripts; the two definitions are the same code) *)

\* grouped[ev.trace_id].append(ev) replaced by an assignment of a new list
GroupAdd_overwrites(grouped, ev) ==
  LET k == trace_id(ev)
  IN IF k \in DOMAIN grouped.vals
       THEN [grouped EXCEPT !.vals[k] = <<ev>>]
       ELSE [keys |-> Append(grouped.keys, k),
             vals |-> (k :> <<ev>>) @@ grouped.vals]

\* grouped[ev.trace_id].append(ev) on a defaultdict(list): a missing key is
\* inserted (at the end of the key order) with an empty list first
GroupAdd(grouped, ev) ==
  LET k == trace_id(ev)
  IN IF k \in DOMAIN grouped.vals
       THEN [grouped EXCEPT !.vals[k] = Append(@, ev)]
       ELSE [keys |-> Append(grouped.keys, k),
             vals |-> (k :> <<ev>>) @@ grouped.vals]

RECURSIVE GroupFold(_, _, _)
GroupFold(grouped, evs, k) ==
  IF k > Len(evs) THEN grouped
  ELSE GroupFold(GroupAdd(grouped, evs[k]), evs, k + 1)

\* the whole function, as the metrics and checks receive its value
group_by_trace(evs) == GroupFold(NoTraces, evs, 1)

\* traces.values(), in the dict's order
SessionAt(n) == traces.vals[traces.keys[n]]
NumSessions == Len(traces.keys)

GroupTraceIds == {JStr("a"), JStr("b"), JStr(""), None}
GroupSpanIds == {JStr("s1"), JStr("s2")}
GroupRaws == {[trace_id |-> t, span_id |-> s] : t \in GroupTraceIds, s \in GroupSpanIds}
               \cup {[span_id |-> s] : s \in GroupSpanIds}

InitGroup ==
  /\ pc = "group"
  /\ events \in SeqsUpTo(GroupRaws, MaxEvents)
  /\ traces = NoTraces
  /\ LoadIdle
  /\ si = 0 /\ ei = 1 /\ prev = None /\ gaps = <<>>
  /\ onset_turn = None /\ distances = <<>>
  /\ had_correction = FALSE /\ relapsed = FALSE
  /\ with_correction = 0 /\ with_relapse = 0 /\ violations = 0
  /\ label = None /\ counts = EmptyCounter
  /\ ExtraIdle
  /\ result = None

\* one iteration of the for loop
GroupRecord ==
  /\ pc = "group" /\ ei <= Len(events)
  /\ traces' = GroupAdd(traces, events[ei])
  /\ ei' = ei + 1
  /\ UNCHANGED <<pc, loadVars, events, si, prev, gaps, onset_turn, distances,
                 had_correction, relapsed, with_correction, with_relapse,
                 violations, label, counts, result, extraVars>>

GroupReturn ==
  /\ pc = "group" /\ ei > Len(events)
  /\ pc' = "group_done"
  /\ result' = traces
  /\ UNCHANGED <<loadVars, events, traces, metricVars, extraVars>>

NextGroup == GroupRecord \/ GroupReturn

SpecGroup == InitGroup /\ [][NextGroup]_vars

\* the records of evs whose trace_id is k, in the order of evs
OfTrace(evs, k) == LET Test(e) == trace_id(e) = k IN SelectSeq(evs, Test)

\* index of the first record of evs whose trace_id is k
FirstIndex(evs, k) ==
  CHOOSE n \in 1..Len(evs) :
    /\ trace_id(evs[n]) = k
    /\ \A m \in 1..(n - 1) : trace_id(evs[m]) # k

RECURSIVE SumLen(_, _)
SumLen(g, n) == IF n = 0 THEN 0 ELSE Len(g.vals[g.keys[n]]) + SumLen(g, n - 1)

\* C10: the groups partition the input: the group of key k is exactly the
\* input records whose trace_id is k, in input order; the keys are the
\* distinct trace_ids in order of first occurrence; the group sizes add up to
\* the input size; records with a missing or empty trace_id are all in the
\* group keyed by the empty string.
C10_GroupsPartitionInput ==
  pc = "group_done" =>
    /\ DOMAIN result.vals = {trace_id(events[n]) : n \in 1..Len(events)}
    /\ {result.keys[n] : n \in 1..Len(result.keys)} = DOMAIN result.vals
    /\ Len(result.keys) = Cardinality(DOMAIN result.vals)
    /\ \A k \in DOMAIN result.vals : result.vals[k] = OfTrace(events, k)
    /\ \A m, n \in 1..Len(result.keys) :
         m < n => FirstIndex(events, result.keys[m]) < FirstIndex(events, result.keys[n])
    /\ SumLen(result, Len(result.keys)) = Len(events)
    /\ \A n \in 1..Len(events) :
         DictGet(events[n], "trace_id", JStr("")) = JStr("")
           => \E m \in 1..Len(result.vals[""]) : result.vals[""][m] = events[n]

C10_Witness ==
  /\ pc = "group_done" /\ Len(events) = 4
  /\ result.keys = <<"b", "", "a">>
  /\ Len(result.vals[""]) = 2
  /\ "trace_id" \notin DOMAIN events[2]
  /\ DictGet(events[4], "trace_id", None) = JStr("")
  /\ result.vals[""][1] # result.vals[""][2]

-----------------------------------------------------------------------------
(* compute_relative_latency_gaps (compute_metrics_from_jsonl.py)           *)
(* Latencies are whole numbers of milliseconds; a gap, a float quotient in *)
(* the code, is kept as the pair <<numerator, denominator>>.               *)

Abs(x) == IF x < 0 THEN -x ELSE x
Max2(x, y) == IF x >= y THEN x ELSE y

\* abs(prev - lat) / max(prev, lat, 1.0)
Gap(p, lat) == <<Abs(p - lat), Max2(Max2(p, lat), 1)>>

LatencyValues == {JInt(0), JInt(4), JStr("x"), JStr("2")}
LatencyRaws ==
  {[trace_id |-> JStr(t)] : t \in {"a", "b"}}
    \cup {[trace_id |-> JStr(t), payload |-> JDict([latency_ms |-> v])] :
            t \in {"a", "b"}, v \in LatencyValues}

\* state at the call of a metric on the grouped records of an input
MetricInit(raws, start) ==
  /\ pc = start
  /\ events \in SeqsUpTo(raws, MaxEvents)
  /\ traces = group_by_trace(events)
  /\ LoadIdle
  /\ si = 1 /\ ei = 0 /\ prev = None /\ gaps = <<>>
  /\ onset_turn = None /\ distances = <<>>
  /\ had_correction = FALSE /\ relapsed = FALSE
  /\ with_correction = 0 /\ with_relapse = 0 /\ violations = 0
  /\ label = None /\ counts = EmptyCounter
  /\ ExtraIdle
  /\ result = None

InitGaps == MetricInit(LatencyRaws, "gaps")

\* prev is set once, before the loop over the sessions
GapsSession_keeps_prev ==
  /\ pc = "gaps" /\ si <= NumSessions /\ ei = 0
  /\ ei' = 1
  /\ UNCHANGED <<pc, loadVars, events, traces, si, prev, gaps, onset_turn,
                 distances, had_correction, relapsed, with_correction,
                 with_relapse, violations, label, counts, result, extraVars>>

\* the outer loop takes the next session: prev = None
GapsSession ==
  /\ pc = "gaps" /\ si <= NumSessions /\ ei = 0
  /\ prev' = None
  /\ ei' = 1
  /\ UNCHANGED <<pc, loadVars, events, traces, si, gaps, onset_turn,
                 distances, had_correction, relapsed, with_correction,
                 with_relapse, violations, label, counts, result, extraVars>>

\* lat is None: continue
GapsSkip ==
  /\ pc = "gaps" /\ si <= NumSessions /\ ei >= 1 /\ ei <= Len(SessionAt(si))
  /\ latency_ms(SessionAt(si)[ei]) = None
  /\ ei' = ei + 1
  /\ UNCHANGED <<pc, loadVars, events, traces, si, prev, gaps, onset_turn,
                 distances, had_correction, relapsed, with_correction,
                 with_relapse, violations, label, counts, result, extraVars>>

\* lat is defined: a gap is appended when prev is defined; prev = lat
GapsRecord ==
  /\ pc = "gaps" /\ si <= NumSessions /\ ei >= 1 /\ ei <= Len(SessionAt(si))
  /\ LET lat == latency_ms(SessionAt(si)[ei])
     IN /\ lat # None
        /\ gaps' = IF prev # None THEN Append(gaps, Gap(prev[2], lat[2]))
                                  ELSE gaps
        /\ prev' = lat
  /\ ei' = ei + 1
  /\ UNCHANGED <<pc, loadVars, events, traces, si, onset_turn,
                 distances, had_correction, relapsed, with_correction,
                 with_relapse, violations, label, counts, result, extraVars>>

\* the inner loop is exhausted
GapsSessionEnd ==
  /\ pc = "gaps" /\ si <= NumSessions /\ ei > Len(SessionAt(si))
  /\ si' = si + 1
  /\ ei' = 0
  /\ UNCHANGED <<pc, loadVars, events, traces, prev, gaps, onset_turn,
                 distances, had_correction, relapsed, with_correction,
                 with_relapse, violations, label, counts, result, extraVars>>

GapsReturn ==
  /\ pc = "gaps" /\ si > NumSessions
  /\ pc' = "gaps_done"
  /\ result' = gaps
  /\ UNCHANGED <<loadVars, events, traces, metricVars, extraVars>>

NextGaps == GapsSession \/ GapsSkip \/ GapsRecord \/ GapsSessionEnd \/ GapsReturn

SpecGaps == InitGaps /\ [][NextGaps]_vars

\* the latency-carrying records of a session, in order
HasLatency(e) == latency_ms(e) # None
WithLatency(s) == SelectSeq(s, HasLatency)

\* the gaps of the consecutive latency-carrying records of one session
SessionGaps(s) ==
  LET L == WithLatency(s)
  IN [n \in 1..(Len(L) - 1) |-> Gap(latency_ms(L[n])[2], latency_ms(L[n + 1])[2])]

RECURSIVE GapCount(_)
GapCount(n) ==
  IF n = 0 THEN 0
  ELSE GapCount(n - 1) + Max2(0, Len(WithLatency(SessionAt(n))) - 1)

RECURSIVE AllSessionGaps(_)
AllSessionGaps(n) ==
  IF n = 0 THEN <<>> ELSE AllSessionGaps(n - 1) \o SessionGaps(SessionAt(n))

\* C3: the returned list has sum over the sessions of max(0, k - 1) entries,
\* k the number of records of the session with a defined latency_ms; its
\* entries are the gaps of the consecutive latency-carrying records of each
\* session, session after session: records without a latency do not break
\* the pairing and no pair spans two sessions.
C3_GapCountPerSession ==
  pc = "gaps_done" =>
    /\ Len(result) = GapCount(NumSessions)
    /\ result = AllSessionGaps(NumSessions)

C3_Witness ==
  /\ pc = "gaps_done" /\ NumSessions = 2 /\ Len(events) = 4
  /\ trace_id(events[1]) = "a" /\ latency_ms(events[1]) = JInt(4)
  /\ trace_id(events[2]) = "b" /\ latency_ms(events[2]) = JInt(2)
  /\ trace_id(events[3]) = "a" /\ latency_ms(events[3]) = None
  /\ trace_id(events[4]) = "a" /\ latency_ms(events[4]) = JInt(0)
  /\ result = <<<<4, 4>>>>

-----------------------------------------------------------------------------
(* compute_recovery_turn_distances (compute_metrics_from_jsonl.py) *)

RecoveryRaws ==
  {[trace_id |-> JStr("a"), event_type |-> JStr("drift_like")],
   [trace_id |-> JStr("a"), event_type |-> JStr("drift_like"),
    payload |-> JDict([turn |-> JInt(1)])],
   [trace_id |-> JStr("a"), event_type |-> JStr("drift_like"),
    payload |-> JDict([turn |-> JInt(3)])],
   [trace_id |-> JStr("a"), event_type |-> JStr("drift_like"),
    payload |-> JDict([stability_tag |-> JStr("recovered"), turn |-> JInt(2)])],
   [trace_id |-> JStr("a"), event_type |-> JStr("reason_step"),
    payload |-> JDict([stability_tag |-> JStr("recovered")])],
   [trace_id |-> JStr("a"), event_type |-> JStr("reason_step"),
    payload |-> JDict([stability_tag |-> JStr("recovered"), turn |-> JInt(1)])],
   [trace_id |-> JStr("a"), event_type |-> JStr("reason_step"),
    payload |-> JDict([stability_tag |-> JStr("recovered"), turn |-> JInt(3)])],
   [trace_id |-> JStr("a"), event_type |-> JStr("reason_step"),
    payload |-> JDict([stability_tag |-> JStr("stable"), turn |-> JInt(2)])],
   [trace_id |-> JStr("b"), event_type |-> JStr("drift_like"),
    payload |-> JDict([turn |-> JInt(1)])],
   [trace_id |-> JStr("b"), event_type |-> JStr("reason_step"),
    payload |-> JDict([stability_tag |-> JStr("recovered"), turn |-> JInt(3)])]}

InitRecovery == MetricInit(RecoveryRaws, "recovery")

\* the record the inner loop is at
AtRecord(p) == pc = p /\ si <= NumSessions /\ ei >= 1 /\ ei <= Len(SessionAt(si))
Current == SessionAt(si)[ei]

\* ev.payload.get("stability_tag") == "recovered"
IsRecovered(ev) == DictGet(payload(ev), "stability_tag", None) = JStr("recovered")
IsDrift(ev) == event_type(ev) = "drift_like"

\* ev.turn if ev.turn is not None else default
TurnOr(ev, default) == IF turn(ev) # None THEN turn(ev)[2] ELSE default

\* onset_turn is set once, before the loop over the sessions
RecoverySession_keeps_onset ==
  /\ pc = "recovery" /\ si <= NumSessions /\ ei = 0
  /\ ei' = 1
  /\ UNCHANGED <<pc, loadVars, events, traces, si, prev, gaps, onset_turn,
                 distances, had_correction, relapsed, with_correction,
                 with_relapse, violations, label, counts, result, extraVars>>

\* the outer loop takes the next session: onset_turn = None
RecoverySession ==
  /\ pc = "recovery" /\ si <= NumSessions /\ ei = 0
  /\ onset_turn' = None
  /\ ei' = 1
  /\ UNCHANGED <<pc, loadVars, events, traces, si, prev, gaps,
                 distances, had_correction, relapsed, with_correction,
                 with_relapse, violations, label, counts, result, extraVars>>

\* lines 186-188: idle and drift_like: record the onset, continue
RecoveryOnset ==
  /\ AtRecord("recovery")
  /\ onset_turn = None /\ IsDrift(Current)
  /\ onset_turn' = JInt(TurnOr(Current, 0))
  /\ ei' = ei + 1
  /\ UNCHANGED <<pc, loadVars, events, traces, si, prev, gaps,
                 distances, had_correction, relapsed, with_correction,
                 with_relapse, violations, label, counts, result, extraVars>>

\* the distance is appended without the max(0, ...) floor
RecoveryRecover_signed ==
  /\ AtRecord("recovery")
  /\ onset_turn # None /\ IsRecovered(Current)
  /\ distances' = Append(distances, TurnOr(Current, onset_turn[2]) - onset_turn[2])
  /\ onset_turn' = None
  /\ ei' = ei + 1
  /\ UNCHANGED <<pc, loadVars, events, traces, si, prev, gaps,
                 had_correction, relapsed, with_correction,
                 with_relapse, violations, label, counts, result, extraVars>>

\* lines 190-195: pending and tagged recovered: emit the distance, back to idle
RecoveryRecover ==
  /\ AtRecord("recovery")
  /\ onset_turn # None /\ IsRecovered(Current)
  /\ LET end_turn == TurnOr(Current, onset_turn[2])
     IN distances' = Append(distances, Max2(0, end_turn - onset_turn[2]))
  /\ onset_turn' = None
  /\ ei' = ei + 1
  /\ UNCHANGED <<pc, loadVars, events, traces, si, prev, gaps,
                 had_correction, relapsed, with_correction,
                 with_relapse, violations, label, counts, result, extraVars>>

\* neither branch acts: idle and not drift_like, or pending and not recovered
RecoveryPass ==
  /\ AtRecord("recovery")
  /\ \/ onset_turn = None /\ ~IsDrift(Current)
     \/ onset_turn # None /\ ~IsRecovered(Current)
  /\ ei' = ei + 1
  /\ UNCHANGED <<pc, loadVars, events, traces, si, prev, gaps, onset_turn,
                 distances, had_correction, relapsed, with_correction,
                 with_relapse, violations, label, counts, result, extraVars>>

RecoverySessionEnd ==
  /\ pc = "recovery" /\ si <= NumSessions /\ ei > Len(SessionAt(si))
  /\ si' = si + 1
  /\ ei' = 0
  /\ UNCHANGED <<pc, loadVars, events, traces, prev, gaps, onset_turn,
                 distances, had_correction, relapsed, with_correction,
                 with_relapse, violations, label, counts, result, extraVars>>

RecoveryReturn ==
  /\ pc = "recovery" /\ si > NumSessions
  /\ pc' = "recovery_done"
  /\ result' = distances
  /\ UNCHANGED <<loadVars, events, traces, metricVars, extraVars>>

NextRecovery ==
  \/ RecoverySession \/ RecoveryOnset \/ RecoveryRecover \/ RecoveryPass
  \/ RecoverySessionEnd \/ RecoveryReturn

SpecRecovery == InitRecovery /\ [][NextRecovery]_vars

SetMin(S) == CHOOSE x \in S : \A y \in S : x <= y

\* the successive onset/recovery pairs of a session from index `from` on:
\* the first drift_like record, the first recovered record after it, and
\* again after that one
RECURSIVE EpisodePairs(_, _)
EpisodePairs(s, from) ==
  LET D == {j \in from..Len(s) : IsDrift(s[j])}
  IN IF D = {} THEN <<>>
     ELSE LET j == SetMin(D)
              R == {i \in (j + 1)..Len(s) : IsRecovered(s[i])}
          IN IF R = {} THEN <<>>
             ELSE <<<<j, SetMin(R)>>>> \o EpisodePairs(s, SetMin(R) + 1)

\* the distance of a pair: recovery turn minus onset turn, floored at 0
\* (onset turn 0 when undefined, recovery turn the onset turn when undefined)
PairDistance(s, pr) ==
  LET onset == TurnOr(s[pr[1]], 0)
  IN Max2(0, TurnOr(s[pr[2]], onset) - onset)

SessionDistances(s) ==
  LET P == EpisodePairs(s, 1) IN [n \in 1..Len(P) |-> PairDistance(s, P[n])]

RECURSIVE AllSessionDistances(_)
AllSessionDistances(n) ==
  IF n = 0 THEN <<>>
  ELSE AllSessionDistances(n - 1) \o SessionDistances(SessionAt(n))

C5_Step ==
  /\ (AtRecord("recovery") /\ onset_turn = None /\ ~IsDrift(Current))
       => (distances' = distances /\ onset_turn' = None)
  /\ (AtRecord("recovery") /\ onset_turn = None /\ IsDrift(Current))
       => (distances' = distances /\ onset_turn' = JInt(TurnOr(Current, 0)))
  /\ (AtRecord("recovery") /\ onset_turn # None /\ IsDrift(Current))
       => \/ ~IsRecovered(Current) /\ onset_turn' = onset_turn
                                   /\ distances' = distances
          \/ /\ IsRecovered(Current) /\ onset_turn' = None
             /\ distances' =
                  Append(distances,
                         Max2(0, TurnOr(Current, onset_turn[2]) - onset_turn[2]))
  /\ (pc = "recovery" /\ si <= NumSessions /\ ei = 0)
       => (onset_turn' = None /\ distances' = distances)
  /\ (pc = "recovery" /\ si <= NumSessions /\ ei > Len(SessionAt(si)))
       => distances' = distances
  /\ (pc = "recovery" /\ si > NumSessions) => result' = distances

C5_RecoveryStateMachine == [][C5_Step]_vars

\* session a: recovered in idle, two onsets, ends pending; session b starts
\* with a recovered record; nothing is emitted
C5_Witness ==
  /\ pc = "recovery_done" /\ NumSessions = 2 /\ Len(events) = 4
  /\ IsRecovered(events[1]) /\ ~IsDrift(events[1])
  /\ IsDrift(events[2]) /\ IsDrift(events[3]) /\ ~IsRecovered(events[3])
  /\ trace_id(events[3]) = "a"
  /\ trace_id(events[4]) = "b" /\ IsRecovered(events[4])
  /\ result = <<>>

-----------------------------------------------------------------------------
(* compute_post_correction_relapse_rate (compute_metrics_from_jsonl.py) *)

RelapseRaws ==
  {[trace_id |-> JStr("a"), event_type |-> JStr(t)] :
     t \in {"correction", "self_check", "drift_like", "reason_step"}}
    \cup {[trace_id |-> JStr("b"), event_type |-> JStr(t)] :
            t \in {"correction", "drift_like", "reason_step"}}
    \cup {[trace_id |-> JStr("a")]}

InitRelapse == MetricInit(RelapseRaws, "relapse")

\* ev.event_type in {"correction", "self_check"}
IsCorrection(ev) == event_type(ev) \in {"correction", "self_check"}

\* the flags are set once, before the loop over the sessions
RelapseSession_keeps_flags ==
  /\ pc = "relapse" /\ si <= NumSessions /\ ei = 0
  /\ ei' = 1
  /\ UNCHANGED <<pc, loadVars, events, traces, si, prev, gaps, onset_turn,
                 distances, had_correction, relapsed, with_correction,
                 with_relapse, violations, label, counts, result, extraVars>>

\* the outer loop takes the next session: both flags False
RelapseSession ==
  /\ pc = "relapse" /\ si <= NumSessions /\ ei = 0
  /\ had_correction' = FALSE
  /\ relapsed' = FALSE
  /\ ei' = 1
  /\ UNCHANGED <<pc, loadVars, events, traces, si, prev, gaps, onset_turn,
                 distances, with_correction, with_relapse, violations, label,
                 counts, result, extraVars>>

\* lines 221-223: the first correction record
RelapseCorrection ==
  /\ AtRecord("relapse")
  /\ ~had_correction /\ IsCorrection(Current)
  /\ had_correction' = TRUE
  /\ ei' = ei + 1
  /\ UNCHANGED <<pc, loadVars, events, traces, si, prev, gaps, onset_turn,
                 distances, relapsed, with_correction, with_relapse,
                 violations, label, counts, result, extraVars>>

\* lines 225-227: a drift_like record after the correction: break
RelapseDrift ==
  /\ AtRecord("relapse")
  /\ ~(~had_correction /\ IsCorrection(Current))
  /\ had_correction /\ IsDrift(Current)
  /\ relapsed' = TRUE
  /\ ei' = Len(SessionAt(si)) + 1
  /\ UNCHANGED <<pc, loadVars, events, traces, si, prev, gaps, onset_turn,
                 distances, had_correction, with_correction, with_relapse,
                 violations, label, counts, result, extraVars>>

\* neither branch acts
RelapsePass ==
  /\ AtRecord("relapse")
  /\ ~(~had_correction /\ IsCorrection(Current))
  /\ ~(had_correction /\ IsDrift(Current))
  /\ ei' = ei + 1
  /\ UNCHANGED <<pc, loadVars, events, traces, si, prev, gaps, onset_turn,
                 distances, had_correction, relapsed, with_correction,
                 with_relapse, violations, label, counts, result, extraVars>>

\* lines 229-232: the session is counted
RelapseSessionEnd ==
  /\ pc = "relapse" /\ si <= NumSessions /\ ei > Len(SessionAt(si))
  /\ with_correction' = IF had_correction THEN with_correction + 1
                                          ELSE with_correction
  /\ with_relapse' = IF had_correction /\ relapsed THEN with_relapse + 1
                                                   ELSE with_relapse
  /\ si' = si + 1
  /\ ei' = 0
  /\ UNCHANGED <<pc, loadVars, events, traces, prev, gaps, onset_turn,
                 distances, had_correction, relapsed, violations, label,
                 counts, result, extraVars>>

RelapseReturn ==
  /\ pc = "relapse" /\ si > NumSessions
  /\ pc' = "relapse_done"
  /\ result' = <<with_relapse, with_correction>>
  /\ UNCHANGED <<loadVars, events, traces, metricVars, extraVars>>

NextRelapse ==
  \/ RelapseSession \/ RelapseCorrection \/ RelapseDrift \/ RelapsePass
  \/ RelapseSessionEnd \/ RelapseReturn

SpecRelapse == InitRelapse /\ [][NextRelapse]_vars

\* the sessions that contain a correction record
CorrectedSessions ==
  {n \in 1..NumSessions :
     \E i \in 1..Len(SessionAt(n)) : IsCorrection(SessionAt(n)[i])}

\* the sessions with a drift_like record strictly after their first
\* correction record
RelapsedSessions ==
  {n \in 1..NumSessions :
     \E i \in 1..Len(SessionAt(n)) :
       /\ IsCorrection(SessionAt(n)[i])
       /\ \A k \in 1..(i - 1) : ~IsCorrection(SessionAt(n)[k])
       /\ \E j \in (i + 1)..Len(SessionAt(n)) : IsDrift(SessionAt(n)[j])}

\* C6: the function returns (r, c): c the number of sessions with at least
\* one correction or self_check record, r the number of those sessions with
\* a drift_like record strictly after the first such record. A session
\* without correction adds to neither; a drift_like record before the first
\* correction does not make a relapse.
C6_RelapseCounts ==
  pc = "relapse_done" =>
    /\ result[2] = Cardinality(CorrectedSessions)
    /\ result[1] = Cardinality(RelapsedSessions)
    /\ RelapsedSessions \subseteq CorrectedSessions

\* session a: drift_like, correction, reason_step (corrected, no relapse);
\* session b: drift_like only (not counted)
C6_Witness ==
  /\ pc = "relapse_done" /\ Len(events) = 4 /\ NumSessions = 2
  /\ trace_id(events[1]) = "a" /\ IsDrift(events[1])
  /\ trace_id(events[2]) = "a" /\ IsCorrection(events[2])
  /\ trace_id(events[3]) = "b" /\ IsDrift(events[3])
  /\ trace_id(events[4]) = "a" /\ event_type(events[4]) = "reason_step"
  /\ result = <<0, 1>>

-----------------------------------------------------------------------------
(* classify_session_closure, compute_session_closure_profile               *)
(* (compute_metrics_from_jsonl.py)                                         *)

CLOSURE_LABELS ==
  [k \in {"ok", "completed_after_correction", "corrected", "incomplete", "error"} |->
     CASE k = "ok" -> "natural_completion"
       [] k = "completed_after_correction" -> "completed_after_correction"
       [] k = "corrected" -> "completed_after_correction"
       [] k = "incomplete" -> "incomplete"
       [] OTHER -> "forced_stop"]

\* str.strip() on the strings the model draws
Strip(str) ==
  CASE str = " ok " -> "ok"
    [] str = " " -> ""
    [] OTHER -> str

\* str(payload.get(name, "")).strip()
ClosureField(pl, name) == Strip(PyStr(DictGet(pl, name, JStr(""))))

\* the tuple of line 263 built from the last field to the first
ClosureKeys_reversed(pl) ==
  <<ClosureField(pl, "pattern"), ClosureField(pl, "final_status"),
    ClosureField(pl, "status")>>

\* the tuple of line 263 (an empty string stands for the None of `x or None`)
ClosureKeys(pl) ==
  <<ClosureField(pl, "status"), ClosureField(pl, "final_status"),
    ClosureField(pl, "pattern")>>

\* lines 263-268: the label of the first key that is non-empty and mapped,
\* None when the loop ends without a return
RECURSIVE FirstLabel(_, _)
FirstLabel(keys, n) ==
  IF n > Len(keys) THEN None
  ELSE IF keys[n] = "" THEN FirstLabel(keys, n + 1)
  ELSE IF keys[n] \in DOMAIN CLOSURE_LABELS /\ CLOSURE_LABELS[keys[n]] # ""
         THEN JStr(CLOSURE_LABELS[keys[n]])
  ELSE FirstLabel(keys, n + 1)

\* the record looked at is the first one of the session
classify_session_closure_first(evs) ==
  IF evs = <<>> THEN "unknown"
  ELSE LET last == evs[1]
           found == FirstLabel(ClosureKeys(payload(last)), 1)
       IN IF found # None THEN found[2]
          ELSE IF event_type(last) = "session_end" THEN "session_end_generic"
          ELSE IF component(last) = "user" THEN "user_abandonment"
          ELSE "unknown"

classify_session_closure(evs) ==
  IF evs = <<>> THEN "unknown"
  ELSE LET last == evs[Len(evs)]
           found == FirstLabel(ClosureKeys(payload(last)), 1)
       IN IF found # None THEN found[2]
          ELSE IF event_type(last) = "session_end" THEN "session_end_generic"
          ELSE IF component(last) = "user" THEN "user_abandonment"
          ELSE "unknown"

\* counts[label] += 1 on a Counter
CounterAdd(c, l) ==
  IF l \in DOMAIN c THEN [c EXCEPT ![l] = @ + 1] ELSE (l :> 1) @@ c

MaxPrefix == 1

ClosureStatus == {JStr("ok"), JStr("zzz"), JStr(" ok ")}
ClosureFinal == {JStr("error"), JStr("relapse_after_recovery")}
ClosurePattern == {JStr("corrected"), JStr("")}

\* payloads: every subset of the three fields, every drawn value
ClosurePayloads ==
  UNION {[F -> ClosureStatus \cup ClosureFinal \cup ClosurePattern] :
           F \in SUBSET {"status", "final_status", "pattern"}}

WellTyped(pl) ==
  /\ "status" \in DOMAIN pl => pl["status"] \in ClosureStatus
  /\ "final_status" \in DOMAIN pl => pl["final_status"] \in ClosureFinal
  /\ "pattern" \in DOMAIN pl => pl["pattern"] \in ClosurePattern

ClosureHeads ==
  {[event_type |-> JStr("session_end"), component |-> JStr("user")],
   [event_type |-> JStr("session_end")],
   [component |-> JStr("user")],
   [component |-> JStr("agent")]}

ClosureLast ==
  {("payload" :> JDict(pl)) @@ h :
     pl \in {q \in ClosurePayloads : WellTyped(q)}, h \in ClosureHeads}
ClosureLastFew ==
  {("payload" :> JDict(pl)) @@ [component |-> JStr("user")] :
     pl \in {[status |-> JStr("ok"), pattern |-> JStr("corrected")],
             [final_status |-> JStr("error")], EmptyDict}}
ClosureEarlier ==
  {[event_type |-> JStr("session_end"),
    payload |-> JDict([status |-> JStr("incomplete")])],
   [event_type |-> JStr("drift_like")]}

ClosureSessions(lasts) ==
  {<<>>} \cup {pre \o <<l>> : pre \in SeqsUpTo(ClosureEarlier, MaxPrefix), l \in lasts}

\* the dicts handed to compute_session_closure_profile: no, one or two sessions
ClosureTraces ==
  {NoTraces}
    \cup {[keys |-> <<"s1">>, vals |-> [k \in {"s1"} |-> a]] :
            a \in ClosureSessions(ClosureLast)}
    \cup {[keys |-> <<"s1", "s2">>,
           vals |-> [k \in {"s1", "s2"} |-> IF k = "s1" THEN a ELSE b]] :
            a \in ClosureSessions(ClosureLast), b \in ClosureSessions(ClosureLastFew)}

InitClosure ==
  /\ pc = "closure"
  /\ events = <<>>
  /\ traces \in ClosureTraces
  /\ LoadIdle
  /\ si = 1 /\ ei = 0 /\ prev = None /\ gaps = <<>>
  /\ onset_turn = None /\ distances = <<>>
  /\ had_correction = FALSE /\ relapsed = FALSE
  /\ with_correction = 0 /\ with_relapse = 0 /\ violations = 0
  /\ label = None /\ counts = EmptyCounter
  /\ ExtraIdle
  /\ result = None

\* lines 281-283: one iteration over traces.values()
ClosureSession ==
  /\ pc = "closure" /\ si <= NumSessions
  /\ label' = JStr(classify_session_closure(SessionAt(si)))
  /\ counts' = CounterAdd(counts, classify_session_closure(SessionAt(si)))
  /\ si' = si + 1
  /\ UNCHANGED <<pc, loadVars, events, traces, ei, prev, gaps, onset_turn,
                 distances, had_correction, relapsed, with_correction,
                 with_relapse, violations, result, extraVars>>

ClosureReturn ==
  /\ pc = "closure" /\ si > NumSessions
  /\ pc' = "closure_done"
  /\ result' = counts
  /\ UNCHANGED <<loadVars, events, traces, metricVars, extraVars>>

NextClosure == ClosureSession \/ ClosureReturn

SpecClosure == InitClosure /\ [][NextClosure]_vars

\* a field of the last record's payload, read as text without surrounding
\* blanks, is non-empty and a key of the lookup table
FieldOf(r, name) == ClosureField(payload(r), name)
Mapped(r, name) == FieldOf(r, name) # "" /\ FieldOf(r, name) \in DOMAIN CLOSURE_LABELS

\* the precedence chain of the claim
PrecedenceLabel(r) ==
  IF Mapped(r, "status") THEN CLOSURE_LABELS[FieldOf(r, "status")]
  ELSE IF Mapped(r, "final_status") THEN CLOSURE_LABELS[FieldOf(r, "final_status")]
  ELSE IF Mapped(r, "pattern") THEN CLOSURE_LABELS[FieldOf(r, "pattern")]
  ELSE IF event_type(r) = "session_end" THEN "session_end_generic"
  ELSE IF component(r) = "user" THEN "user_abandonment"
  ELSE "unknown"

LastOf(s) == s[Len(s)]

\* C7: the label given to a non-empty session is the one the ordered
\* precedence status > final_status > pattern > session_end > user > unknown
\* gives for its last record; a mapped higher field wins over lower ones.
C7_ClosurePrecedence ==
  (pc \in {"closure", "closure_done"} /\ si >= 2 /\ SessionAt(si - 1) # <<>>)
    => label = JStr(PrecedenceLabel(LastOf(SessionAt(si - 1))))

\* status and pattern both mapped, to different labels: status wins
C7_Witness ==
  /\ pc = "closure_done" /\ NumSessions = 1
  /\ Mapped(LastOf(SessionAt(1)), "status")
  /\ Mapped(LastOf(SessionAt(1)), "pattern")
  /\ DictGet(payload(LastOf(SessionAt(1))), "final_status", None) = JStr("error")
  /\ label = JStr("natural_completion")
  /\ result = ("natural_completion" :> 1)

\* C8: the label depends on the last record only: a session whose last
\* record equals the last record of the session classified before it gets
\* the same label, whatever the earlier records; the empty session is
\* labelled unknown.
C8_Step ==
  (pc = "closure" /\ si <= NumSessions) =>
    /\ SessionAt(si) = <<>> => label' = JStr("unknown")
    /\ (si >= 2 /\ SessionAt(si) # <<>> /\ SessionAt(si - 1) # <<>>
          /\ LastOf(SessionAt(si)) = LastOf(SessionAt(si - 1)))
         => (label' = label /\ counts'[label[2]] = counts[label[2]] + 1)

C8_LastRecordDecides == [][C8_Step]_vars

\* two sessions with the same last record and different earlier records,
\* the earlier record of one carrying a mapped status of its own
C8_Witness ==
  /\ pc = "closure_done" /\ NumSessions = 2
  /\ Len(SessionAt(1)) = 2 /\ Len(SessionAt(2)) = 1
  /\ LastOf(SessionAt(1)) = LastOf(SessionAt(2))
  /\ Mapped(SessionAt(1)[1], "status")
  /\ result = ("forced_stop" :> 2)

-----------------------------------------------------------------------------
(* Event.timestamp, check_timestamp_monotonicity                           *)
(* (trace_tree_sanity_checks.py)                                           *)
(* A datetime is kept as its number of seconds since 2025-01-01T00:00:00.  *)

\* datetime.fromisoformat on the strings the model draws; any other string
\* raises ValueError
IsoFormat ==
  [str \in {"2025-01-01T10:00:00", "2025-01-01T10:00:05", "2025-01-01T09:59:59"} |->
     CASE str = "2025-01-01T10:00:00" -> 36000000
       [] str = "2025-01-01T10:00:05" -> 36005000
       [] OTHER -> 35999000]

\* ts.endswith("Z") and ts[:-1], on the strings the model draws
WithoutZ ==
  [str \in {"2025-01-01T10:00:05Z", "2025-01-01T10:00:00Z", "Z"} |->
     CASE str = "2025-01-01T10:00:05Z" -> "2025-01-01T10:00:05"
       [] str = "2025-01-01T10:00:00Z" -> "2025-01-01T10:00:00"
       [] OTHER -> ""]

Digit ==
  [c \in {"0", "1", "2", "3", "4", "5", "6", "7", "8", "9"} |->
     CASE c = "0" -> 0 [] c = "1" -> 1 [] c = "2" -> 2 [] c = "3" -> 3
       [] c = "4" -> 4 [] c = "5" -> 5 [] c = "6" -> 6 [] c = "7" -> 7
       [] c = "8" -> 8 [] OTHER -> 9]

\* the characters a..b of str are decimal digits
AllDigits(str, a, b) == \A n \in a..b : SubSeq(str, n, n) \in DOMAIN Digit

\* the number written by the digits a..b of str
RECURSIVE DigitsValue(_, _, _)
DigitsValue(str, a, b) ==
  IF b < a THEN 0
  ELSE 10 * DigitsValue(str, a, b - 1) + Digit[SubSeq(str, b, b)]

\* datetime.fromisoformat on "2025-01-DDTHH:MM:SS.mmm", the form the
\* generator writes: milliseconds since 2025-01-01T00:00:00, None on ValueError
fromisoformat(str) ==
  IF /\ Len(str) = 23
     /\ SubSeq(str, 1, 8) = "2025-01-"
     /\ SubSeq(str, 11, 11) = "T"
     /\ SubSeq(str, 14, 14) = ":" /\ SubSeq(str, 17, 17) = ":"
     /\ SubSeq(str, 20, 20) = "."
     /\ AllDigits(str, 9, 10) /\ AllDigits(str, 12, 13)
     /\ AllDigits(str, 15, 16) /\ AllDigits(str, 18, 19)
     /\ AllDigits(str, 21, 23)
     /\ DigitsValue(str, 9, 10) \in 1..31 /\ DigitsValue(str, 12, 13) < 24
     /\ DigitsValue(str, 15, 16) < 60 /\ DigitsValue(str, 18, 19) < 60
    THEN JInt((DigitsValue(str, 9, 10) - 1) * 86400000
              + DigitsValue(str, 12, 13) * 3600000
              + DigitsValue(str, 15, 16) * 60000
              + DigitsValue(str, 18, 19) * 1000
              + DigitsValue(str, 21, 23))
    ELSE None

\* the text without a trailing "Z"
StripZ(str) ==
  IF str \in DOMAIN WithoutZ THEN WithoutZ[str]
  ELSE IF Len(str) > 0 /\ SubSeq(str, Len(str), Len(str)) = "Z"
         THEN SubSeq(str, 1, Len(str) - 1)
         ELSE str

\* Event.timestamp, in milliseconds since 2025-01-01T00:00:00
timestamp(raw) ==
  LET ts == DictGet(raw, "timestamp", None)
  IN IF ~IsStr(ts) THEN None
     ELSE LET text == StripZ(ts[2])
          IN IF text \in DOMAIN IsoFormat THEN JInt(IsoFormat[text])
             ELSE fromisoformat(text)

TimestampValues ==
  {JStr("2025-01-01T10:00:00"), JStr("2025-01-01T10:00:05Z"),
   JStr("2025-01-01T09:59:59"), JStr("garbage"), JInt(5)}
MonoRaws ==
  {[trace_id |-> JStr("a"), timestamp |-> v] : v \in TimestampValues}
    \cup {[trace_id |-> JStr("a")]}

\* the function is called with the records of one session
InitMono ==
  /\ pc = "mono"
  /\ events \in SeqsUpTo(MonoRaws, MaxEvents)
  /\ traces = NoTraces
  /\ LoadIdle
  /\ si = 0 /\ ei = 1 /\ prev = None /\ gaps = <<>>
  /\ onset_turn = None /\ distances = <<>>
  /\ had_correction = FALSE /\ relapsed = FALSE
  /\ with_correction = 0 /\ with_relapse = 0 /\ violations = 0
  /\ label = None /\ counts = EmptyCounter
  /\ ExtraIdle
  /\ result = None

\* ts is None: continue
MonoSkip ==
  /\ pc = "mono" /\ ei <= Len(events)
  /\ timestamp(events[ei]) = None
  /\ ei' = ei + 1
  /\ UNCHANGED <<pc, loadVars, events, traces, si, prev, gaps, onset_turn,
                 distances, had_correction, relapsed, with_correction,
                 with_relapse, violations, label, counts, result, extraVars>>

\* the comparison of line 111 is ts <= prev
MonoRecord_nonstrict ==
  /\ pc = "mono" /\ ei <= Len(events)
  /\ LET ts == timestamp(events[ei])
     IN /\ ts # None
        /\ violations' = IF prev # None /\ ts[2] <= prev[2]
                           THEN violations + 1 ELSE violations
        /\ prev' = ts
  /\ ei' = ei + 1
  /\ UNCHANGED <<pc, loadVars, events, traces, si, gaps, onset_turn,
                 distances, had_correction, relapsed, with_correction,
                 with_relapse, label, counts, result, extraVars>>

\* lines 111-113
MonoRecord ==
  /\ pc = "mono" /\ ei <= Len(events)
  /\ LET ts == timestamp(events[ei])
     IN /\ ts # None
        /\ violations' = IF prev # None /\ ts[2] < prev[2]
                           THEN violations + 1 ELSE violations
        /\ prev' = ts
  /\ ei' = ei + 1
  /\ UNCHANGED <<pc, loadVars, events, traces, si, gaps, onset_turn,
                 distances, had_correction, relapsed, with_correction,
                 with_relapse, label, counts, result, extraVars>>

MonoReturn ==
  /\ pc = "mono" /\ ei > Len(events)
  /\ pc' = "mono_done"
  /\ result' = <<violations = 0, violations>>
  /\ UNCHANGED <<loadVars, events, traces, metricVars, extraVars>>

NextMono == MonoSkip \/ MonoRecord \/ MonoReturn

SpecMono == InitMono /\ [][NextMono]_vars

\* the records with a parseable timestamp
Parseable == {n \in 1..Len(events) : timestamp(events[n]) # None}

\* the records whose timestamp is strictly earlier than that of the nearest
\* preceding record with a parseable timestamp
EarlierThanPrevious ==
  {n \in Parseable :
     \E m \in Parseable :
       /\ m < n
       /\ \A k \in Parseable : ~(m < k /\ k < n)
       /\ timestamp(events[n])[2] < timestamp(events[m])[2]}

-----------------------------------------------------------------------------
(* generate_synthetic_traces.py: Event.to_json, emit, and the session      *)
(* generators. A datetime is its number of milliseconds since              *)
(* 2025-01-01T00:00:00. random.randint is drawn at the ends of its range   *)
(* for latencies and time gaps, over its whole range for turn numbers.     *)

\* datetime(2025, 1, 1, 10, 0, 0)
BaseTime == 36000000

randint(a, b) == a..b
randint_ends(a, b) == {a, b}

\* format(n, "0{w}d")
ZeroPad(n, w) ==
  LET digits == ToString(n)
  IN IF Len(digits) >= w THEN digits
     ELSE SubSeq("00000000", 1, w - Len(digits)) \o digits

\* datetime.isoformat(timespec="milliseconds")
isoformat(t) ==
  "2025-01-" \o ZeroPad(1 + (t \div 86400000), 2) \o "T"
    \o ZeroPad((t % 86400000) \div 3600000, 2) \o ":"
    \o ZeroPad((t % 3600000) \div 60000, 2) \o ":"
    \o ZeroPad((t % 60000) \div 1000, 2) \o "."
    \o ZeroPad(t % 1000, 3)

\* Event.to_json followed by json.loads: the decoded object of the line
to_json(ev) ==
  [timestamp |-> JStr(isoformat(ev.timestamp) \o "Z"),
   trace_id |-> JStr(ev.trace_id),
   span_id |-> JStr(ev.span_id),
   component |-> JStr(ev.component),
   event_type |-> JStr(ev.event_type),
   execution_stage |-> JStr(ev.execution_stage),
   payload |-> JDict(ev.payload)]

\* ts stays where it is
Emit_no_gap(comp, etype, stage, pl, gap_ms) ==
  /\ span_counter' = span_counter + 1
  /\ gen_ts' = gen_ts
  /\ stdout' = Append(stdout,
       ObjLine(to_json([timestamp |-> gen_ts,
                        trace_id |-> gen.trace_id,
                        span_id |-> gen.trace_id \o "_s" \o ZeroPad(span_counter + 1, 4),
                        component |-> comp,
                        event_type |-> etype,
                        execution_stage |-> stage,
                        payload |-> pl])))

\* emit(...) and the write of main: span_counter and ts advance, the event
\* built from them is written as one line
Emit(comp, etype, stage, pl, gap_ms) ==
  /\ span_counter' = span_counter + 1
  /\ gen_ts' = gen_ts + gap_ms
  /\ stdout' = Append(stdout,
       ObjLine(to_json([timestamp |-> gen_ts + gap_ms,
                        trace_id |-> gen.trace_id,
                        span_id |-> gen.trace_id \o "_s" \o ZeroPad(span_counter + 1, 4),
                        component |-> comp,
                        event_type |-> etype,
                        execution_stage |-> stage,
                        payload |-> pl])))

\* _base_start_time()
BaseStartTimes == {BaseTime + 1000 * sec : sec \in randint_ends(0, 60)}

\* the variables a generator leaves alone
genIdleVars == <<loadVars, events, traces, metricVars, children, fanouts, result>>

GenInit(variant, args) ==
  /\ pc = variant
  /\ gen \in args
  /\ gen_ts \in BaseStartTimes
  /\ span_counter = 0
  /\ stdout = <<>>
  /\ events = <<>> /\ traces = NoTraces
  /\ LoadIdle /\ MetricIdle
  /\ children = EmptyDict /\ fanouts = EmptyCounter
  /\ result = None

-----------------------------------------------------------------------------
(* generate_simple_correction_loop_session *)

\* the k-th yield of the function, lat the latency drawn for it
LoopYield(k, lat) ==
  CASE k = 1 -> <<"system", "session_init", "init",
                  [session_id |-> JStr("sess_" \o gen.trace_id)]>>
    [] k = 2 -> <<"user", "user_message", "input",
                  [turn |-> JInt(1),
                   content |-> JStr("Create a short checklist with exactly 3 items.")]>>
    [] k = 3 -> <<"agent", "agent_step", "processing",
                  [turn |-> JInt(1), latency_ms |-> JInt(lat),
                   summary |-> JStr("Initial 3-item checklist created.")]>>
    [] k = 4 -> <<"agent", "drift_like", "processing",
                  [turn |-> JInt(2), latency_ms |-> JInt(lat),
                   note |-> JStr("Checklist grows to 6 items, constraint partially dropped.")]>>
    [] k = 5 -> <<"agent", "correction", "recovery",
                  [turn |-> JInt(3), kind |-> JStr("self_check"),
                   latency_ms |-> JInt(lat),
                   note |-> JStr("Re-read instruction and compress back to 3 items.")]>>
    [] k = 6 -> <<"agent", "agent_step", "output",
                  [turn |-> JInt(4), latency_ms |-> JInt(lat),
                   summary |-> JStr("3-item checklist, constraints respected."),
                   stability_tag |-> JStr("recovered")]>>
    [] OTHER -> <<"system", "session_end", "complete",
                  [turns |-> JInt(4), instability_signals |-> JInt(1),
                   corrections |-> JInt(1),
                   final_status |-> JStr("completed_after_correction")]>>

\* the latency range of the k-th yield (none for the yields without latency)
LoopLatencies(k) ==
  CASE k = 3 -> randint_ends(200, 320)
    [] k = 4 -> randint_ends(260, 380)
    [] k = 5 -> randint_ends(160, 260)
    [] k = 6 -> randint_ends(200, 320)
    [] OTHER -> {0}

LoopYields == 7

LoopArgs == {[variant |-> "simple_correction_loop", trace_idx |-> 0,
              trace_id |-> "loop_" \o ZeroPad(0, 3)]}

InitLoop == GenInit("simple_correction_loop", LoopArgs)

\* one yield of the generator, written by main
LoopEmit ==
  /\ pc = "simple_correction_loop" /\ span_counter < LoopYields
  /\ \E lat \in LoopLatencies(span_counter + 1), gap_ms \in randint_ends(40, 140) :
       LET y == LoopYield(span_counter + 1, lat)
       IN Emit(y[1], y[2], y[3], y[4], gap_ms)
  /\ UNCHANGED <<pc, gen, genIdleVars>>

\* the generator is exhausted
LoopEnd ==
  /\ pc = "simple_correction_loop" /\ span_counter = LoopYields
  /\ pc' = "gen_done"
  /\ UNCHANGED <<gen, gen_ts, span_counter, stdout, genIdleVars>>

-----------------------------------------------------------------------------
(* The generated lines read by compute_metrics_from_jsonl.py: main loads   *)
(* the file, groups it and calls the metrics.                              *)

\* main line 321: load_events(args.file) on the file the generator wrote
MetricsMainLoad ==
  /\ pc = "gen_done" /\ gen.variant = "simple_correction_loop"
  /\ pc' = "load"
  /\ lines' = stdout
  /\ max_sessions' = None
  /\ li' = 1
  /\ events' = <<>>
  /\ seen_traces' = {}
  /\ UNCHANGED <<traces, metricVars, extraVars, result>>

\* main lines 322-345: events were loaded; group them, call the recovery metric
MetricsMainGroup ==
  /\ pc = "load_done" /\ gen # NoGen /\ events # <<>>
  /\ traces' = group_by_trace(events)
  /\ pc' = "recovery"
  /\ si' = 1 /\ ei' = 0
  /\ distances' = <<>>
  /\ UNCHANGED <<loadVars, events, prev, gaps, onset_turn, had_correction,
                 relapsed, with_correction, with_relapse, violations, label,
                 counts, extraVars, result>>

\* main line 354: call the relapse metric
MetricsMainRelapse ==
  /\ pc = "recovery_done" /\ gen # NoGen
  /\ pc' = "relapse"
  /\ si' = 1 /\ ei' = 0
  /\ with_correction' = 0 /\ with_relapse' = 0
  /\ UNCHANGED <<loadVars, events, traces, prev, gaps, onset_turn, distances,
                 had_correction, relapsed, violations, label, counts,
                 extraVars, result>>

NextLoopMetrics ==
  \/ LoopEmit \/ LoopEnd
  \/ MetricsMainLoad \/ LoadAppend \/ LoadReturn
  \/ MetricsMainGroup
  \/ RecoverySession \/ RecoveryOnset \/ RecoveryRecover \/ RecoveryPass
  \/ RecoverySessionEnd \/ RecoveryReturn
  \/ MetricsMainRelapse
  \/ RelapseSession \/ RelapseCorrection \/ RelapsePass
  \/ RelapseSessionEnd \/ RelapseReturn

SpecLoopMetrics == InitLoop /\ [][NextLoopMetrics]_vars

\* C11: one generated simple_correction_loop session, loaded, grouped and fed
\* to the metrics, gives relapse rate (0 relapsed, 1 corrected) and exactly
\* one recovery episode, of distance 2, whatever the random draws.
C11_LoopSessionMetrics ==
  /\ (pc = "recovery_done" /\ gen # NoGen) => result = <<2>>
  /\ (pc = "relapse_done" /\ gen # NoGen) =>
       (result = <<0, 1>> /\ distances = <<2>>)

C11_Witness ==
  /\ pc = "relapse_done" /\ gen # NoGen
  /\ gen.variant = "simple_correction_loop"
  /\ Len(events) = 7 /\ NumSessions = 1
  /\ latency_ms(events[4]) = JInt(380)
  /\ result = <<0, 1>> /\ distances = <<2>>

-----------------------------------------------------------------------------
(* trace_tree_sanity_checks.py: load_events, Event.parent_id,              *)
(* compute_span_fanout, detect_short_sessions and main. A printed line is  *)
(* the tuple of its text pieces and formatted values.                      *)

MaxSanityLines == 4

\* load_events of the sanity script: the decoded objects of the lines that
\* are neither blank nor malformed
sanity_load_events(ls) ==
  LET objs == SelectSeq(ls, IsObjLine)
  IN [n \in 1..Len(objs) |-> objs[n][2]]

\* Event.parent_id: None or a string
parent_id(raw) ==
  LET first == DictGet(raw, "parent_span_id", None)
      parent == IF Truthy(first) THEN first ELSE DictGet(raw, "parent_id", None)
  IN IF parent = None THEN None ELSE JStr(PyStr(parent))

\* compute_span_fanout: one more child for the parent of ev, if it has one
FanoutAdd(ch, ev) ==
  LET parent == parent_id(ev)
  IN IF Truthy(parent) THEN CounterAdd(ch, parent[2]) ELSE ch

RECURSIVE FanoutFold(_, _, _)
FanoutFold(ch, evs, k) ==
  IF k > Len(evs) THEN ch ELSE FanoutFold(FanoutAdd(ch, evs[k]), evs, k + 1)

compute_span_fanout(evs) == FanoutFold(EmptyCounter, evs, 1)

\* check_timestamp_monotonicity as a value: the violations of one session
RECURSIVE MonoFold(_, _, _, _)
MonoFold(evs, k, before, found) ==
  IF k > Len(evs) THEN found
  ELSE LET t == timestamp(evs[k])
       IN IF t = None THEN MonoFold(evs, k + 1, before, found)
          ELSE MonoFold(evs, k + 1, t,
                        IF before # None /\ t[2] < before[2] THEN found + 1 ELSE found)

check_timestamp_monotonicity(evs) ==
  LET found == MonoFold(evs, 1, None, 0) IN <<found = 0, found>>

\* detect_short_sessions(traces, min_events): the keys of the short sessions
detect_short_sessions(tr, min_events) ==
  LET IsShort(k) == Len(tr.vals[k]) < min_events IN SelectSeq(tr.keys, IsShort)

\* sorted(...) of a set of numbers
RECURSIVE Sorted(_)
Sorted(S) ==
  IF S = {} THEN <<>>
  ELSE LET least == CHOOSE x \in S : \A y \in S : x <= y
       IN <<least>> \o Sorted(S \ {least})

\* fanouts[count] += 1 for every count in children.values()
RECURSIVE CountValues(_, _, _)
CountValues(fo, ch, keys) ==
  IF keys = {} THEN fo
  ELSE LET k == CHOOSE x \in keys : TRUE
       IN CountValues(CounterAdd(fo, ch[k]), ch, keys \ {k})

SanityRaws ==
  {[trace_id |-> JStr("a")],
   [trace_id |-> JStr("a"), parent_span_id |-> JStr("p1")],
   [trace_id |-> JStr("a"), parent_span_id |-> JStr("p2")],
   [trace_id |-> JStr("a"), parent_span_id |-> JStr(""), parent_id |-> JStr("p1")],
   [trace_id |-> JStr("a"), timestamp |-> JStr("2025-01-01T10:00:05Z")],
   [trace_id |-> JStr("a"), timestamp |-> JStr("2025-01-01T09:59:59")],
   [trace_id |-> JStr("b")],
   [trace_id |-> JStr("b"), parent_span_id |-> JStr("p1")]}
SanityLines == {BlankLine, MalformedLine} \cup {ObjLine(r) : r \in SanityRaws}

InitSanity ==
  /\ pc = "sanity_main"
  /\ lines \in SeqsUpTo(SanityLines, MaxSanityLines)
  /\ max_sessions = None /\ li = 0 /\ seen_traces = {}
  /\ events = <<>> /\ traces = NoTraces
  /\ MetricIdle
  /\ ExtraIdle
  /\ result = None

sanityIdleVars == <<loadVars, metricVars, gen, gen_ts, span_counter, result>>

\* lines 157-160: nothing was loaded
SanityNoEvents ==
  /\ pc = "sanity_main"
  /\ sanity_load_events(lines) = <<>>
  /\ events' = <<>>
  /\ stdout' = <<<<"No events loaded.">>>>
  /\ pc' = "sanity_done"
  /\ UNCHANGED <<traces, children, fanouts, sanityIdleVars>>

\* lines 157-165: events were loaded and grouped
SanityLoaded ==
  /\ pc = "sanity_main"
  /\ sanity_load_events(lines) # <<>>
  /\ events' = sanity_load_events(lines)
  /\ traces' = group_by_trace(sanity_load_events(lines))
  /\ stdout' = <<<<"Loaded ", Len(events'), " events across ",
                    Len(traces'.keys), " sessions.">>, <<"">>>>
  /\ pc' = "sanity_monotonicity"
  /\ UNCHANGED <<children, fanouts, sanityIdleVars>>

\* lines 167-178: the monotonicity section
SanityMonotonicity ==
  /\ pc = "sanity_monotonicity"
  /\ LET bad == {n \in 1..NumSessions : ~check_timestamp_monotonicity(SessionAt(n))[1]}
         RECURSIVE Total(_)
         Total(S) == IF S = {} THEN 0
                     ELSE LET n == CHOOSE x \in S : TRUE
                          IN check_timestamp_monotonicity(SessionAt(n))[2] + Total(S \ {n})
     IN stdout' = stdout \o <<<<"[timestamp-monotonicity]">>,
                              <<"  sessions with violations: ", Cardinality(bad)>>,
                              <<"  total violations        : ", Total(bad)>>,
                              <<"">>>>
  /\ pc' = "sanity_fanout"
  /\ si' = 1
  /\ fanouts' = EmptyCounter
  /\ UNCHANGED <<loadVars, events, traces, ei, prev, gaps, onset_turn,
                 distances, had_correction, relapsed, with_correction,
                 with_relapse, violations, label, counts, children, gen,
                 gen_ts, span_counter, result>>

\* children is one dict filled by all the sessions
SanityFanoutSession_accumulates ==
  /\ pc = "sanity_fanout" /\ si <= NumSessions
  /\ children' = FanoutFold(children, SessionAt(si), 1)
  /\ fanouts' = CountValues(fanouts, children', DOMAIN children')
  /\ si' = si + 1
  /\ UNCHANGED <<pc, loadVars, events, traces, ei, prev, gaps, onset_turn,
                 distances, had_correction, relapsed, with_correction,
                 with_relapse, violations, label, counts, stdout, gen,
                 gen_ts, span_counter, result>>

\* lines 181-185: one session: its child counts are added to fanouts
SanityFanoutSession ==
  /\ pc = "sanity_fanout" /\ si <= NumSessions
  /\ children' = compute_span_fanout(SessionAt(si))
  /\ fanouts' = CountValues(fanouts, children', DOMAIN children')
  /\ si' = si + 1
  /\ UNCHANGED <<pc, loadVars, events, traces, ei, prev, gaps, onset_turn,
                 distances, had_correction, relapsed, with_correction,
                 with_relapse, violations, label, counts, stdout, gen,
                 gen_ts, span_counter, result>>

\* the lines "  spans with K children: n", K ascending
FanoutLines(fo) ==
  LET ks == Sorted(DOMAIN fo)
  IN [n \in 1..Len(ks) |-> <<"  spans with ", ks[n], " children: ", fo[ks[n]]>>]

\* the header is printed only when there is something to report
SanityFanoutPrint_quiet ==
  /\ pc = "sanity_fanout" /\ si > NumSessions
  /\ stdout' = IF fanouts # EmptyCounter
                 THEN stdout \o <<<<"[span-fanout]">>>> \o FanoutLines(fanouts) \o <<<<"">>>>
                 ELSE stdout
  /\ pc' = "sanity_short"
  /\ UNCHANGED <<traces, events, children, fanouts, sanityIdleVars>>

\* lines 187-196: the fan-out section
SanityFanoutPrint ==
  /\ pc = "sanity_fanout" /\ si > NumSessions
  /\ stdout' = stdout \o <<<<"[span-fanout]">>>>
                 \o (IF fanouts # EmptyCounter THEN FanoutLines(fanouts)
                     ELSE <<<<"  no parent-child relationships detected (no parent_span_id fields).">>>>)
                 \o <<<<"">>>>
  /\ pc' = "sanity_short"
  /\ UNCHANGED <<traces, events, children, fanouts, sanityIdleVars>>

\* lines 198-206: the short-session section
SanityShort ==
  /\ pc = "sanity_short"
  /\ LET short == detect_short_sessions(traces, 3)
     IN stdout' = stdout \o <<<<"[short-sessions]">>,
                              <<"  sessions with < 3 events: ", Len(short)>>>>
                    \o (IF Len(short) <= 10
                          THEN [n \in 1..Len(short) |-> <<"    - ", short[n]>>]
                          ELSE <<<<"    (too many to list)">>, <<"">>>>)
  /\ pc' = "sanity_done"
  /\ UNCHANGED <<traces, events, children, fanouts, sanityIdleVars>>

NextSanity ==
  \/ SanityNoEvents \/ SanityLoaded \/ SanityMonotonicity
  \/ SanityFanoutSession \/ SanityFanoutPrint \/ SanityShort

SpecSanity == InitSanity /\ [][NextSanity]_vars

\* the positions of a line in the output
Positions(line) == {n \in 1..Len(stdout) : stdout[n] = line}

\* the three section headers are printed, once each, in this order
ThreeHeaders ==
  /\ Cardinality(Positions(<<"[timestamp-monotonicity]">>)) = 1
  /\ Cardinality(Positions(<<"[span-fanout]">>)) = 1
  /\ Cardinality(Positions(<<"[short-sessions]">>)) = 1
  /\ \A m \in Positions(<<"[timestamp-monotonicity]">>),
        n \in Positions(<<"[span-fanout]">>),
        o \in Positions(<<"[short-sessions]">>) : m < n /\ n < o

\* at least one line of the file is a decodable record
SomeRecord == \E k \in 1..Len(lines) : IsObjLine(lines[k])

NamedBy(evs, p) == Cardinality({n \in 1..Len(evs) : parent_id(evs[n]) = JStr(p)})

\* the parent ids named (non-empty) by the records of evs
ParentIds(evs) ==
  {parent_id(evs[n])[2] : n \in {m \in 1..Len(evs) : Truthy(parent_id(evs[m]))}}

\* the number the report gives for K children
Reported(K) == IF K \in DOMAIN fanouts THEN fanouts[K] ELSE 0

\* C13 as stated: the number reported for K is the number of distinct parent
\* ids named by exactly K records of the whole input.
C13_FanoutAcrossSessions ==
  pc = "sanity_done" =>
    \A K \in 1..MaxSanityLines :
      Reported(K) = Cardinality({p \in ParentIds(events) : NamedBy(events, p) = K})

\* C13 amended: child counts are kept per parent id within each session: the
\* number reported for K is the number of (session, parent id) pairs such
\* that exactly K records of that session name that parent id; a parent id
\* named in two sessions counts once in each. The printed lines give these
\* numbers, K ascending.
C13_FanoutPerSession ==
  pc \in {"sanity_short", "sanity_done"} =>
    /\ \A K \in 1..MaxSanityLines :
         Reported(K) =
           Cardinality({sp \in (1..NumSessions) \X ParentIds(events) :
                          NamedBy(SessionAt(sp[1]), sp[2]) = K})
    /\ DOMAIN fanouts \subseteq 1..MaxSanityLines
    /\ \A K \in DOMAIN fanouts :
         Positions(<<"  spans with ", K, " children: ", fanouts[K]>>) # {}

\* sessions a and b both name p1, a twice
C13_Witness ==
  /\ pc = "sanity_done" /\ NumSessions = 2
  /\ NamedBy(SessionAt(1), "p1") = 2 /\ NamedBy(SessionAt(2), "p1") = 1
  /\ fanouts = (1 :> 1) @@ (2 :> 1)

-----------------------------------------------------------------------------
(* The accessors Event.turn and Event.phase applied to one decoded record, *)
(* kept as events[1].                                                      *)

\* a key that is absent, or present with one of the values
Fields(key, vals) == {EmptyDict} \cup {(key :> v) : v \in vals}

AccessorPayloads ==
  {JStr("x")} \cup
  {JDict(a @@ b) :
     a \in Fields("turn", {JInt(0), JInt(1), JStr("2"), JStr("x"), JStr(""), None}),
     b \in Fields("phase", {JStr("q")})}

AccessorRaws ==
  {a @@ b @@ c @@ e :
     a \in Fields("payload", AccessorPayloads),
     b \in Fields("turn", {JInt(3), JInt(0), JStr("x")}),
     c \in Fields("phase", {JStr("p"), None}),
     e \in Fields("pld", {JStr("x"), JDict(EmptyDict), JDict("phase" :> JStr("r"))})}

InitAccessor ==
  /\ pc = "accessor"
  /\ events \in {<<raw>> : raw \in AccessorRaws}
  /\ traces = NoTraces
  /\ LoadIdle
  /\ MetricIdle
  /\ ExtraIdle
  /\ result = None

\* ev.turn
AccessTurn ==
  /\ pc = "accessor"
  /\ result' = turn(events[1])
  /\ pc' = "turn_done"
  /\ UNCHANGED <<loadVars, events, traces, metricVars, extraVars>>

\* ev.phase
AccessPhase ==
  /\ pc = "accessor"
  /\ result' = phase(events[1])
  /\ pc' = "phase_done"
  /\ UNCHANGED <<loadVars, events, traces, metricVars, extraVars>>

NextAccessor == AccessTurn \/ AccessPhase

SpecAccessor == InitAccessor /\ [][NextAccessor]_vars

\* the payload mapping of the record, or no mapping
PayloadOf(raw) == DictGet(raw, "payload", None)
HasPayloadField(raw, key) ==
  IsDict(PayloadOf(raw)) /\ key \in DOMAIN PayloadOf(raw)[2]
PayloadField(raw, key) == PayloadOf(raw)[2][key]

\* int(v) succeeds
IntCoercible(v) == IsInt(v) \/ (IsStr(v) /\ v[2] \in DOMAIN NumericStrings)
IntOf(v) == IF IsInt(v) THEN v ELSE JInt(NumericStrings[v[2]])

\* C14: turn returns the integer value of payload.turn whenever payload.turn
\* is present and integer-coercible (0 included), uses the top-level turn
\* only when payload.turn is absent, and returns None when the chosen value
\* cannot be coerced.
C14_PayloadTurnFirst ==
  pc = "turn_done" =>
    LET raw == events[1]
        chosen == IF HasPayloadField(raw, "turn") THEN PayloadField(raw, "turn")
                  ELSE DictGet(raw, "turn", None)
    IN result = IF IntCoercible(chosen) THEN IntOf(chosen) ELSE None

\* C15 as stated: phase returns the top-level phase when present; when it is
\* absent and payload is a mapping it returns payload.phase, and when it is
\* absent and pld is a mapping it returns pld.phase.
C15_PayloadPhaseFallback ==
  pc = "phase_done" =>
    LET raw == events[1]
    IN /\ "phase" \in DOMAIN raw => result = raw["phase"]
       /\ ("phase" \notin DOMAIN raw /\ IsDict(PayloadOf(raw)))
            => result = DictGet(PayloadOf(raw)[2], "phase", None)
       /\ ("phase" \notin DOMAIN raw /\ ~IsDict(PayloadOf(raw))
             /\ IsDict(DictGet(raw, "pld", None)))
            => result = DictGet(DictGet(raw, "pld", None)[2], "phase", None)

\* the record without its payload
WithoutPayload(raw) == [k \in DOMAIN raw \ {"payload"} |-> raw[k]]

\* C15 amended: phase returns the top-level phase when it is present and not
\* None; otherwise, when pld is a mapping, it returns pld.phase (None if pld
\* has none); otherwise None. payload.phase is never consulted: the result is
\* the same with the payload removed.
C15_PldPhaseFallback ==
  pc = "phase_done" =>
    LET raw == events[1]
        top == DictGet(raw, "phase", None)
        pld == DictGet(raw, "pld", None)
    IN /\ top # None => result = top
       /\ (top = None /\ IsDict(pld)) => result = DictGet(pld[2], "phase", None)
       /\ (top = None /\ ~IsDict(pld)) => result = None
       /\ result = phase(WithoutPayload(raw))

\* no top-level phase, payload.phase and pld.phase both there: pld.phase wins
C15_Witness ==
  /\ pc = "phase_done"
  /\ "phase" \notin DOMAIN events[1]
  /\ HasPayloadField(events[1], "phase")
  /\ DictGet(events[1], "pld", None) = JDict("phase" :> JStr("r"))
  /\ result = JStr("r")

-----------------------------------------------------------------------------
(* generate_long_horizon_session *)

MaxTurns == 9

Min2(a, b) == IF a < b THEN a ELSE b

\* a latency draw, taken at the lower end of its range
randint_low(a, b) == {a}

NoiseLevels == {"low", "medium", "high"}

\* the values of --turns the model draws: none, short, and long enough for
\* relapse_turn to stay below turns - 1
LongTurns == {0, MaxTurns - 5, MaxTurns}

LongArgs ==
  {[variant |-> "long_horizon", trace_idx |-> 0,
    trace_id |-> "lh_" \o ZeroPad(0, 3),
    turns |-> t, noise |-> n,
    drift_turn |-> 0, recovery_turn |-> 0, relapse_turn |-> 0, turn |-> 0] :
     t \in LongTurns, n \in NoiseLevels}

InitLong == GenInit("long_horizon", LongArgs)

_reason_note(t, drift, recovery, relapse) ==
  CASE t < drift -> "baseline pattern, stable"
    [] drift <= t /\ t < recovery -> "growing deviation, early instability"
    [] recovery <= t /\ t < relapse -> "temporarily stabilized after correction"
    [] OTHER -> "late-stage wobble / relapse"

\* the two yields before the parameters are drawn
LongStart ==
  /\ pc = "long_horizon" /\ span_counter < 2
  /\ \E gap_ms \in randint_ends(20, 120) :
       IF span_counter = 0
         THEN Emit("system", "session_init", "init",
                   [session_id |-> JStr("sess_" \o gen.trace_id),
                    variant |-> JStr("long_horizon")], gap_ms)
         ELSE Emit("user", "user_message", "input",
                   [turn |-> JInt(1),
                    content |-> JStr("Run a multi-step checklist and keep it stable over time.")],
                   gap_ms)
  /\ UNCHANGED <<pc, gen, genIdleVars>>

\* the range drift_turn is drawn from
DriftTurns(turns, noise) ==
  CASE noise = "low" -> randint(Max2(3, turns \div 4), Max2(4, turns \div 3))
    [] noise = "high" -> randint(2, Max2(3, turns \div 5))
    [] OTHER -> randint(Max2(3, turns \div 5), Max2(4, turns \div 3))

\* relapse_turn is not capped at turns - 1
LongParams_uncapped ==
  /\ pc = "long_horizon" /\ span_counter = 2
  /\ \E drift \in DriftTurns(gen.turns, gen.noise),
        r1 \in randint(2, 5), r2 \in randint(3, 8) :
       LET recovery == Min2(gen.turns - 3, drift + r1)
       IN gen' = [gen EXCEPT !.drift_turn = drift,
                             !.recovery_turn = recovery,
                             !.relapse_turn = recovery + r2,
                             !.turn = 1]
  /\ pc' = "long_loop"
  /\ UNCHANGED <<gen_ts, span_counter, stdout, genIdleVars>>

\* lines 116-125: drift_turn, recovery_turn and relapse_turn are drawn
LongParams ==
  /\ pc = "long_horizon" /\ span_counter = 2
  /\ \E drift \in DriftTurns(gen.turns, gen.noise),
        r1 \in randint(2, 5), r2 \in randint(3, 8) :
       LET recovery == Min2(gen.turns - 3, drift + r1)
           relapse == Min2(gen.turns - 1, recovery + r2)
       IN gen' = [gen EXCEPT !.drift_turn = drift,
                             !.recovery_turn = recovery,
                             !.relapse_turn = relapse,
                             !.turn = 1]
  /\ pc' = "long_loop"
  /\ UNCHANGED <<gen_ts, span_counter, stdout, genIdleVars>>

\* the latency noise added in the phase the turn is in
LongNoise(t, g) ==
  CASE g.drift_turn <= t /\ t < g.recovery_turn -> randint_low(60, 220)
    [] g.recovery_turn <= t /\ t < g.relapse_turn -> randint_low(-30, 40)
    [] g.relapse_turn <= t -> randint_low(80, 260)
    [] OTHER -> {0}

\* the turn is one of those followed by a self_check
HasSelfCheck(g) ==
  g.turn \in {g.drift_turn + 1, g.recovery_turn, g.relapse_turn}

\* lines 128-150: the reason_step of one turn
LongReason ==
  /\ pc = "long_loop" /\ gen.turn <= gen.turns
  /\ \E base_latency \in randint_low(90, 160), noise \in LongNoise(gen.turn, gen),
        gap_ms \in randint_ends(20, 120) :
       Emit("agent", "reason_step", "processing",
            [turn |-> JInt(gen.turn),
             latency_ms |-> JInt(base_latency + noise),
             note |-> JStr(_reason_note(gen.turn, gen.drift_turn,
                                        gen.recovery_turn, gen.relapse_turn))],
            gap_ms)
  /\ IF HasSelfCheck(gen)
       THEN pc' = "long_check" /\ gen' = gen
       ELSE pc' = pc /\ gen' = [gen EXCEPT !.turn = @ + 1]
  /\ UNCHANGED genIdleVars

\* lines 152-163: the self_check of a turn that has one
LongSelfCheck ==
  /\ pc = "long_check"
  /\ \E lat \in randint_low(80, 180), gap_ms \in randint_ends(20, 120) :
       Emit("agent", "self_check", "recovery",
            [turn |-> JInt(gen.turn),
             kind |-> JStr("lightweight_correction"),
             latency_ms |-> JInt(lat)],
            gap_ms)
  /\ pc' = "long_loop"
  /\ gen' = [gen EXCEPT !.turn = @ + 1]
  /\ UNCHANGED genIdleVars

\* lines 165-178: the session_end record
LongEnd ==
  /\ pc = "long_loop" /\ gen.turn > gen.turns
  /\ \E gap_ms \in randint_ends(20, 120) :
       Emit("system", "session_end", "complete",
            [turns |-> JInt(gen.turns),
             drift_turn |-> JInt(gen.drift_turn),
             recovery_turn |-> JInt(gen.recovery_turn),
             relapse_turn |-> JInt(gen.relapse_turn),
             final_status |-> JStr(IF gen.relapse_turn > gen.turns THEN "stable"
                                   ELSE "relapse_after_recovery")],
            gap_ms)
  /\ pc' = "gen_done"
  /\ UNCHANGED <<gen, genIdleVars>>

NextLong == LongStart \/ LongParams \/ LongReason \/ LongSelfCheck \/ LongEnd

SpecLong == InitLong /\ [][NextLong]_vars

\* the payloads of the session_end records written so far
SessionEnds ==
  {payload(stdout[n][2]) :
     n \in {m \in 1..Len(stdout) : event_type(stdout[m][2]) = "session_end"}}

\* C16: whatever turns, the noise level and the draws, the session_end record
\* of generate_long_horizon_session has relapse_turn <= turns - 1 and
\* final_status "relapse_after_recovery"; "stable" is never written.
C16_AlwaysRelapse ==
  /\ pc = "gen_done" => Cardinality(SessionEnds) = 1
  /\ \A pl \in SessionEnds :
       /\ DictGet(pl, "relapse_turn", None)[2] <= DictGet(pl, "turns", None)[2] - 1
       /\ DictGet(pl, "final_status", None) = JStr("relapse_after_recovery")

\* a session long enough for relapse_turn to fall below the cap turns - 1
C16_Witness ==
  /\ pc = "gen_done" /\ gen.variant = "long_horizon"
  /\ \E pl \in SessionEnds :
       /\ DictGet(pl, "turns", None) = JInt(MaxTurns)
       /\ DictGet(pl, "relapse_turn", None)[2] < MaxTurns - 1
       /\ DictGet(pl, "recovery_turn", None)[2] < MaxTurns - 3
       /\ DictGet(pl, "final_status", None) = JStr("relapse_after_recovery")

-----------------------------------------------------------------------------
(* generate_noisy_mixed_session *)

MixedArgs ==
  {[variant |-> "noisy_mixed", trace_idx |-> 0,
    trace_id |-> "mix_" \o ZeroPad(0, 3), noise |-> n, mode |-> ""] :
     n \in NoiseLevels}

InitMixed == GenInit("noisy_mixed", MixedArgs)

\* lines 295-298: the mode is drawn, and drawn again when the noise is high
MixedMode ==
  /\ pc = "noisy_mixed" /\ gen.mode = ""
  /\ \E first \in {"stable", "corrected", "incomplete"},
        second \in {"corrected", "incomplete"} :
       gen' = [gen EXCEPT !.mode = IF gen.noise = "high" THEN second ELSE first]
  /\ UNCHANGED <<pc, gen_ts, span_counter, stdout, genIdleVars>>

\* the number of yields of a mode
MixedYields(mode) ==
  CASE mode = "stable" -> 5 [] mode = "corrected" -> 8 [] OTHER -> 5

\* the k-th yield of a mode, lat the latency drawn for it
MixedYield(mode, k, lat) ==
  CASE k = 1 -> <<"system", "session_init", "init",
                  [session_id |-> JStr("sess_" \o gen.trace_id)]>>
    [] k = 2 -> <<"user", "user_message", "input",
                  [content |-> JStr("Run a small multi-step task."),
                   approx_length |-> JStr("short")]>>
    [] k = 3 -> <<"agent", "agent_step", "processing",
                  [turn |-> JInt(1), latency_ms |-> JInt(lat)]>>
    [] k = 4 /\ mode = "stable" ->
         <<"agent", "agent_step", "output",
           [turn |-> JInt(2), latency_ms |-> JInt(lat)]>>
    [] k = 5 /\ mode = "stable" ->
         <<"system", "session_end", "complete",
           [status |-> JStr("ok"), pattern |-> JStr("stable")]>>
    [] k = 4 /\ mode = "corrected" ->
         <<"agent", "drift_like", "processing",
           [turn |-> JInt(2), latency_ms |-> JInt(lat),
            note |-> JStr("off-topic or low-quality output")]>>
    [] k = 5 /\ mode = "corrected" ->
         <<"monitor", "warning", "monitoring",
           [reason |-> JStr("content_mismatch")]>>
    [] k = 6 /\ mode = "corrected" ->
         <<"agent", "correction", "recovery",
           [action |-> JStr("retry"), turn |-> JInt(3)]>>
    [] k = 7 /\ mode = "corrected" ->
         <<"agent", "agent_step", "output",
           [turn |-> JInt(4), latency_ms |-> JInt(lat),
            stability_tag |-> JStr("recovered")]>>
    [] k = 8 /\ mode = "corrected" ->
         <<"system", "session_end", "complete",
           [status |-> JStr("corrected"), pattern |-> JStr("corrected")]>>
    [] k = 4 /\ mode = "incomplete" ->
         <<"monitor", "warning", "monitoring",
           [reason |-> JStr("missing_required_detail")]>>
    [] OTHER ->
         <<"system", "session_end", "complete",
           [status |-> JStr("incomplete"), pattern |-> JStr("incomplete")]>>

\* the latency range of the k-th yield of a mode
MixedLatencies(mode, k) ==
  CASE mode = "stable" /\ k \in {3, 4} -> randint_ends(150, 260)
    [] mode = "corrected" /\ k = 3 -> randint_ends(180, 320)
    [] mode = "corrected" /\ k = 4 -> randint_ends(220, 380)
    [] mode = "corrected" /\ k = 7 -> randint_ends(170, 300)
    [] mode = "incomplete" /\ k = 3 -> randint_ends(150, 280)
    [] OTHER -> {0}

\* one yield of the generator, written by main
MixedEmit ==
  /\ pc = "noisy_mixed" /\ gen.mode # "" /\ span_counter < MixedYields(gen.mode)
  /\ \E lat \in MixedLatencies(gen.mode, span_counter + 1),
        gap_ms \in randint_ends(30, 180) :
       LET y == MixedYield(gen.mode, span_counter + 1, lat)
       IN Emit(y[1], y[2], y[3], y[4], gap_ms)
  /\ UNCHANGED <<pc, gen, genIdleVars>>

\* the generator is exhausted
MixedEnd ==
  /\ pc = "noisy_mixed" /\ gen.mode # "" /\ span_counter = MixedYields(gen.mode)
  /\ pc' = "gen_done"
  /\ UNCHANGED <<gen, gen_ts, span_counter, stdout, genIdleVars>>

-----------------------------------------------------------------------------
(* One generated session read back by trace_tree_sanity_checks.py *)

\* the generated file is loaded and grouped, and its session is checked
GeneratedCheck ==
  /\ pc = "gen_done"
  /\ events' = sanity_load_events(stdout)
  /\ traces' = group_by_trace(sanity_load_events(stdout))
  /\ result' = check_timestamp_monotonicity(traces'.vals[traces'.keys[1]])
  /\ pc' = "generated_checked"
  /\ UNCHANGED <<loadVars, metricVars, extraVars>>

\* long_horizon sessions of the shorter values of --turns
InitLongBrief == GenInit("long_horizon", {a \in LongArgs : a.turns < MaxTurns})

InitGenerated == InitLongBrief \/ InitLoop \/ InitMixed

NextGenerated ==
  \/ LongStart \/ LongParams \/ LongReason \/ LongSelfCheck \/ LongEnd
  \/ LoopEmit \/ LoopEnd
  \/ MixedMode \/ MixedEmit \/ MixedEnd
  \/ GeneratedCheck

SpecGenerated == InitGenerated /\ [][NextGenerated]_vars

\* the decoded object of the n-th line written
Written(n) == stdout[n][2]

\* C17: in the session a generator variant writes, each event's timestamp is
\* strictly later than the previous event's, the span_ids are pairwise
\* distinct (span_counter counts the emits), and check_timestamp_monotonicity
\* reports no violation on the session.
C17_GeneratedMonotonic ==
  /\ span_counter = Len(stdout)
  /\ \A n \in 1..Len(stdout) : timestamp(Written(n)) # None
  /\ \A n \in 2..Len(stdout) :
       timestamp(Written(n - 1))[2] < timestamp(Written(n))[2]
  /\ \A m, n \in 1..Len(stdout) :
       m # n => DictGet(Written(m), "span_id", None) # DictGet(Written(n), "span_id", None)
  /\ pc = "generated_checked" =>
       /\ Len(traces.keys) = 1
       /\ Len(events) = Len(stdout)
       /\ result = <<TRUE, 0>>

\* a long_horizon session with a self_check, its timestamps running into the
\* next second
C17_Witness ==
  /\ pc = "generated_checked" /\ gen.variant = "long_horizon"
  /\ gen.turns = MaxTurns - 5
  /\ \E n \in 1..Len(events) : event_type(events[n]) = "self_check"
  /\ timestamp(events[1])[2] < 36001000
  /\ timestamp(events[Len(events)])[2] > 36001000
  /\ result = <<TRUE, 0>>

-----------------------------------------------------------------------------
(* Every function of the model, each started on its own inputs *)

Init ==
  \/ InitLoad \/ InitGroup \/ InitGaps \/ InitRecovery \/ InitRelapse
  \/ InitClosure \/ InitMono

Next ==
  \/ NextLoad \/ NextGroup \/ NextGaps \/ NextRecovery \/ NextRelapse
  \/ NextClosure \/ NextMono

Spec == Init /\ [][Next]_vars

====
